---- MODULE Spec2Model ----
(***************************************************************************)
(* Model of iboot/iboot.py: the DXP client iBootInterface and its commands. *)
(* One device handle (self.seq_num, self.socket) is used by the threads of  *)
(* Threads.  Spec runs a single caller (operations one after another);      *)
(* SpecConc lets two callers interleave on the same handle.                 *)
(* The peer and the transport are the environment: every connect, sendall   *)
(* and recv draws its outcome from the outcomes a TCP socket can produce.   *)
(* struct.unpack('H', ..) uses native byte order; the model takes the       *)
(* little-endian host the protocol is written for.                          *)
(***************************************************************************)
EXTENDS Integers, Sequences, FiniteSets, TLC

\* ---------------------------------------------------------------- bounds
\* Number of public operations called on the handle in one behaviour.
MaxOps == 2

\* Number of operations in a behaviour that compares a later operation with
\* the first one (SpecHistory).
MaxHistoryOps == 3

Threads == {1, 2}

\* ------------------------------------------------------ program constants
\* self.seq_num = None
None == -1
\* self.socket = None
NoSocket == 0
\* COMMAND_MAP['IO']
IO == 3
\* IOCommand.DESCRIPTOR_MAP
CHANGE_RELAY == 1
CHANGE_RELAYS == 2
GET_RELAYS == 4
PULSE_RELAY == 7
\* '21s' fields of HEADER_STRUCT
CredWidth == 21
\* largest value of an 'H' field, and of a 'B' field
MaxU16 == 65535
MaxU8 == 255
\* iBootInterface(..., num_relays=3)
num_relays == 3
\* iBootInterface('192.168.0.105', 'admin', 'admin')
username == <<97, 100, 109, 105, 110>>
password == <<97, 100, 109, 105, 110>>

\* ------------------------------------------------------------- Python values
PyVal(tag, b, l) == [tag |-> tag, b |-> b, l |-> l]
NoValue == PyVal("unset", FALSE, <<>>)
PyBool(b) == PyVal("bool", b, <<>>)
PyNone == PyVal("None", FALSE, <<>>)
PyList(l) == PyVal("list", FALSE, l)
Raised(e) == PyVal(e, FALSE, <<>>)

\* ---------------------------------------------------------------- wire codec
\* '21s' that pads a short string but does not cut a long one
Pack21sUncut(s) ==
    [i \in 1..(IF Len(s) > CredWidth THEN Len(s) ELSE CredWidth) |->
        IF i <= Len(s) THEN s[i] ELSE 0]

\* struct '21s': the string cut or zero-padded to the field width
Pack21s(s) == [i \in 1..CredWidth |-> IF i <= Len(s) THEN s[i] ELSE 0]

\* struct '<H' of a value 0..65535
PackH(n) == <<n % 256, n \div 256>>

\* struct.unpack('H', two bytes)
UnpackH(bs) == bs[1] + 256 * bs[2]

\* HEADER_STRUCT.pack(command, username, password, descriptor, 0, seq)
HeaderPack(command, user, pass, descriptor, seq) ==
    <<command>> \o Pack21s(user) \o Pack21s(pass) \o <<descriptor, 0>> \o PackH(seq)

\* RelayCommand.STATE_MAP for the boolean states
STATE_MAP_NO_CHANGE == 2
STATE_MAP(state) == IF state THEN 1 ELSE 0

\* xrange(32) / 'B' * 32: the slots of the ChangeRelays payload
NumSlots == 32

\* ChangeRelaysCommand._build_payload: state_list, one entry per relay in
\* xrange(32), appended in order; mapping is the dict relay -> state
RECURSIVE BuildStateList(_, _)
BuildStateList(mapping, n) ==
    IF n = 0 THEN <<>>
    ELSE Append(BuildStateList(mapping, n - 1),
                IF n \notin DOMAIN mapping THEN STATE_MAP_NO_CHANGE
                ELSE STATE_MAP(mapping[n]))

\* the payload with the dict looked up by relay instead of relay + 1
ChangeRelaysPayloadOffByOne(mapping) ==
    [i \in 1..NumSlots |->
        IF (i - 1) \notin DOMAIN mapping THEN STATE_MAP_NO_CHANGE
        ELSE STATE_MAP(mapping[i - 1])]

\* ChangeRelaysCommand._build_payload: PAYLOAD_STRUCT.pack(*state_list)
ChangeRelaysPayload(mapping) == BuildStateList(mapping, NumSlots)

\* PAYLOAD_STRUCT.unpack of ChangeRelayCommand's '<BB' layout
UnpackBB(bs) == <<bs[1], bs[2]>>

\* the state whose STATE_MAP code is the given byte
StateOfCode(b) == CHOOSE state \in BOOLEAN : STATE_MAP(state) = b

\* DXPCommand._parse_bool: not struct.unpack('?', string)[0]
ParseBool(bs) == ~(bs[1] # 0)

\* GetRelaysRequest._get_response: [ord(b) == 1 for b in response]
ParseRelays(bs) == [i \in 1..Len(bs) |-> bs[i] = 1]

\* --------------------------------------------------------- the environment
ByteValues == {0, 1, 2}
\* what socket.recv(n) can return: between 0 and n bytes
RecvChoices(n) == UNION {[1..k -> ByteValues] : k \in 0..n}
\* what the peer answers to the greeting: nothing, one byte, or a u16
HandshakeResponses == {<<>>, <<5>>, <<5, 0>>, <<255, 255>>}

\* --------------------------------------------------------------- the calls
Relays == 1..num_relays
Lengths == {500}
StateDicts == {<<>>, <<<<1, TRUE>>>>, <<<<1, TRUE>>, <<2, FALSE>>>>}
Call(name, relay, on, length, states) ==
    [name |-> name, relay |-> relay, on |-> on, length |-> length, states |-> states]
NoCall == Call("none", 0, FALSE, 0, <<>>)
Calls ==
    {Call("switch", r, o, 0, <<>>) : r \in Relays, o \in BOOLEAN}
    \cup {Call("switch_multiple", 0, FALSE, 0, d) : d \in StateDicts}
    \cup {Call("get_relays", 0, FALSE, 0, <<>>)}
    \cup {Call("pulse_relay", r, o, l, <<>>) : r \in Relays, o \in BOOLEAN, l \in Lengths}

\* the calls two concurrent callers choose from
ConcCalls ==
    {Call("switch", 2, TRUE, 0, <<>>),
     Call("pulse_relay", 1, FALSE, 500, <<>>),
     Call("switch_multiple", 0, FALSE, 0, <<>>),
     Call("switch_multiple", 0, FALSE, 0, <<<<1, TRUE>>>>)}

\* ------------------------------------------------------------------- state
VARIABLES
    seq_num,    \* self.seq_num: None or an integer
    socket,     \* self.socket: NoSocket or the id of a socket object
    socks,      \* the socket objects: state, greeting sent, handshake value, peer EOF
    nops,       \* number of operations called so far (= sockets created)
    pc,         \* per thread: position inside the public operation
    op,         \* per thread: the call in progress
    ret,        \* per thread: what the operation gave its caller
    pending,    \* per thread: value computed in try, delivered after finally
    mysock,     \* per thread: the socket created by this operation's connect()
    connres,    \* per thread: how connect() ended
    request,    \* per thread: the request bytes built by do_request
    sentOn,     \* per thread: socket the request was written to (NoSocket: not sent)
    closedSock, \* per thread: the socket this operation's disconnect() closed
    seqBefore,  \* per thread: self.seq_num when do_request started
    resp,       \* per thread: bytes the response recv returned
    script,     \* per thread: what the transport did in this operation, in order
    prev,       \* summary of the first operation that ended (SpecHistory only)
    cin,        \* wire codec: the values to encode (SpecCodec only)
    cout,       \* wire codec: the bytes produced
    cpc,        \* wire codec: which function produced cout
    cdec        \* wire codec: the values unpacked from cout

\* the variables of the session, and the others
session == <<seq_num, socket, socks, nops, pc, op, ret, pending, mysock, connres,
             request, sentOn, closedSock, seqBefore, resp, script>>
aux == <<prev, cin, cout, cpc, cdec>>
vars == <<session, aux>>

\* one thing the transport did: a call's outcome and the bytes it delivered
Event(kind, data) == [ev |-> kind, data |-> data]
Summary(c, scr, result, bytes) == [op |-> c, script |-> scr, ret |-> result, sent |-> bytes]
CodecInput(kind, user, pass, descriptor, seq, relay, on, dict) ==
    [kind |-> kind, user |-> user, pass |-> pass, descriptor |-> descriptor,
     seq |-> seq, relay |-> relay, on |-> on, dict |-> dict]
Decoded(relay, on) == [relay |-> relay, on |-> on]

SockIds == 1..(IF MaxOps > MaxHistoryOps THEN MaxOps ELSE MaxHistoryOps)
Sock(st, hello, hs, eof) == [st |-> st, hello |-> hello, hs |-> hs, eof |-> eof]
NoSock == Sock("unused", FALSE, None, FALSE)

NoSummary == Summary(NoCall, <<>>, NoValue, <<>>)
NoInput == CodecInput("none", <<>>, <<>>, 0, 0, 0, FALSE, <<>>)

\* the handle after __init__, no operation called yet
InitSession ==
    /\ seq_num = None
    /\ socket = NoSocket
    /\ socks = [s \in SockIds |-> NoSock]
    /\ nops = 0
    /\ pc = [t \in Threads |-> "idle"]
    /\ op = [t \in Threads |-> NoCall]
    /\ ret = [t \in Threads |-> NoValue]
    /\ pending = [t \in Threads |-> NoValue]
    /\ mysock = [t \in Threads |-> NoSocket]
    /\ connres = [t \in Threads |-> "none"]
    /\ request = [t \in Threads |-> <<>>]
    /\ sentOn = [t \in Threads |-> NoSocket]
    /\ closedSock = [t \in Threads |-> NoSocket]
    /\ seqBefore = [t \in Threads |-> None]
    /\ resp = [t \in Threads |-> <<>>]
    /\ script = [t \in Threads |-> <<>>]
    /\ prev = NoSummary

Init ==
    /\ InitSession
    /\ cin = NoInput
    /\ cout = <<>>
    /\ cpc = "off"
    /\ cdec = Decoded(0, FALSE)

Connected(s) == s # NoSocket /\ socks[s].st = "connected"

\* ----------------------------------------------------------------- connect
\* A public operation is called; its first statement is self.connect(), which
\* starts with self.socket = socket.socket(...).
Invoke(t, c, limit) ==
    /\ pc[t] = "idle"
    /\ nops < limit
    /\ nops' = nops + 1
    /\ socket' = nops + 1
    /\ socks' = [socks EXCEPT ![nops + 1] = Sock("open", FALSE, None, FALSE)]
    /\ mysock' = [mysock EXCEPT ![t] = nops + 1]
    /\ op' = [op EXCEPT ![t] = c]
    /\ pc' = [pc EXCEPT ![t] = "connect"]
    /\ UNCHANGED <<seq_num, ret, pending, connres, request, sentOn, closedSock, seqBefore, resp>>
    /\ UNCHANGED <<script, aux>>

\* self.socket.connect((ip, port)) succeeds
ConnectOK(t) ==
    /\ pc[t] = "connect"
    /\ socks[socket].st = "open"
    /\ socks' = [socks EXCEPT ![socket].st = "connected"]
    /\ pc' = [pc EXCEPT ![t] = "hello"]
    /\ UNCHANGED <<seq_num, socket, nops, op, ret, pending, mysock, connres,
                   request, sentOn, closedSock, seqBefore, resp>>
    /\ script' = [script EXCEPT ![t] = Append(@, Event("connect", <<>>))]
    /\ UNCHANGED aux

\* self.socket.connect raises socket.error: connect() logs and returns False,
\* and the operation goes on (it does not look at connect()'s result)
ConnectRefused(t) ==
    /\ pc[t] = "connect"
    /\ connres' = [connres EXCEPT ![t] = "refused"]
    /\ pc' = [pc EXCEPT ![t] = "command"]
    /\ UNCHANGED <<seq_num, socket, socks, nops, op, ret, pending, mysock,
                   request, sentOn, closedSock, seqBefore, resp>>
    /\ script' = [script EXCEPT ![t] = Append(@, Event("connect_error", <<>>))]
    /\ UNCHANGED aux

\* self.socket.sendall(HELLO_STR) succeeds
HelloOK(t) ==
    /\ pc[t] = "hello"
    /\ Connected(socket)
    /\ socks' = [socks EXCEPT ![socket].hello = TRUE]
    /\ pc' = [pc EXCEPT ![t] = "recv_init"]
    /\ UNCHANGED <<seq_num, socket, nops, op, ret, pending, mysock, connres,
                   request, sentOn, closedSock, seqBefore, resp>>
    /\ script' = [script EXCEPT ![t] = Append(@, Event("hello", <<>>))]
    /\ UNCHANGED aux

\* self.socket.sendall(HELLO_STR) raises socket.error: connect() returns False
HelloError(t) ==
    /\ pc[t] = "hello"
    /\ connres' = [connres EXCEPT ![t] = "hello_error"]
    /\ pc' = [pc EXCEPT ![t] = "command"]
    /\ UNCHANGED <<seq_num, socket, socks, nops, op, ret, pending, mysock,
                   request, sentOn, closedSock, seqBefore, resp>>
    /\ script' = [script EXCEPT ![t] = Append(@, Event("hello_error", <<>>))]
    /\ UNCHANGED aux

\* The value _get_initial_seq_num stores for a 2-byte response
InitialSeqNum(response) == UnpackH(response) + 1

\* _get_initial_seq_num: response = self.socket.recv(2)
\*   empty: return False; 2 bytes: self.seq_num = unpack + 1, return True;
\*   1 byte: struct.unpack raises struct.error, which connect() does not catch
\*   and which leaves the operation before its try/finally.
GetInitialSeqNum(t, response) ==
    /\ pc[t] = "recv_init"
    /\ Connected(socket)
    /\ socks[socket].eof => response = <<>>
    /\ IF Len(response) = 0
       THEN /\ socks' = [socks EXCEPT ![socket].eof = TRUE]
            /\ connres' = [connres EXCEPT ![t] = "hs_empty"]
            /\ pc' = [pc EXCEPT ![t] = "command"]
            /\ UNCHANGED <<seq_num, ret>>
       ELSE IF Len(response) = 2
       THEN /\ seq_num' = InitialSeqNum(response)
            /\ socks' = [socks EXCEPT ![socket].hs = UnpackH(response)]
            /\ connres' = [connres EXCEPT ![t] = "ok"]
            /\ pc' = [pc EXCEPT ![t] = "command"]
            /\ UNCHANGED ret
       ELSE /\ connres' = [connres EXCEPT ![t] = "hs_short"]
            /\ ret' = [ret EXCEPT ![t] = Raised("struct.error")]
            /\ pc' = [pc EXCEPT ![t] = "done"]
            /\ UNCHANGED <<seq_num, socks>>
    /\ UNCHANGED <<socket, nops, op, pending, mysock, request, sentOn, closedSock, seqBefore, resp>>
    /\ script' = [script EXCEPT ![t] = Append(@, Event("recv", response))]
    /\ UNCHANGED aux

\* self.socket.recv(2) raises socket.error (timeout, reset): connect() returns False
GetInitialSeqNumError(t) ==
    /\ pc[t] = "recv_init"
    /\ connres' = [connres EXCEPT ![t] = "hs_error"]
    /\ pc' = [pc EXCEPT ![t] = "command"]
    /\ UNCHANGED <<seq_num, socket, socks, nops, op, ret, pending, mysock,
                   request, sentOn, closedSock, seqBefore, resp>>
    /\ script' = [script EXCEPT ![t] = Append(@, Event("recv_error", <<>>))]
    /\ UNCHANGED aux

\* ----------------------------------------------------------------- commands
\* DESCRIPTOR_MAP[DESCRIPTOR] of the command class each operation constructs
Descriptor(c) ==
    IF c.name = "get_relays" THEN GET_RELAYS
    ELSE IF c.name = "pulse_relay" THEN PULSE_RELAY
    ELSE CHANGE_RELAY

\* whether PAYLOAD_STRUCT.pack accepts the command's arguments
PayloadFits(c) ==
    IF c.name = "get_relays" THEN TRUE
    ELSE IF c.name = "pulse_relay"
    THEN c.relay \in 0..MaxU8 /\ c.length \in 0..MaxU16
    ELSE c.relay \in 0..MaxU8

\* _build_payload that puts the state code before the relay index
PayloadStateFirst(c) ==
    IF c.name = "get_relays" THEN <<>>
    ELSE IF c.name = "pulse_relay"
    THEN <<STATE_MAP(c.on), c.relay>> \o PackH(c.length)
    ELSE <<STATE_MAP(c.on), c.relay>>

\* _build_payload of ChangeRelayCommand ('<BB'), PulseRelayRequest ('<BBH');
\* GetRelaysRequest sends the header alone
Payload(c) ==
    IF c.name = "get_relays" THEN <<>>
    ELSE IF c.name = "pulse_relay"
    THEN <<c.relay, STATE_MAP(c.on)>> \o PackH(c.length)
    ELSE <<c.relay, STATE_MAP(c.on)>>

\* get_seq_num that returns the counter without advancing it
GetSeqNumNextSkipped(n) == n

\* get_seq_num: the value left in self.seq_num (the old one is returned).
\* The read and the += 1 are taken as one step, also between two callers.
GetSeqNumNext(n) == n + 1

\* increment_seq_num that leaves the counter where it was
IncrementSeqNumSkipped(n) == n

\* increment_seq_num
IncrementSeqNum(n) == n + 1

\* number of bytes the command's _get_response asks recv for
ResponseSize(c) == IF c.name = "get_relays" THEN num_relays ELSE 1

\* what _get_response returns when recv returned nothing
EmptyResponse(c) == IF c.name = "get_relays" THEN PyNone ELSE PyBool(FALSE)

\* what _get_response returns for a non-empty response
ParseResponse(c, response) ==
    IF c.name = "get_relays" THEN PyList(ParseRelays(response))
    ELSE PyBool(ParseBool(response))

\* switch / get_relays / pulse_relay after connect(): the command object is
\* constructed and do_request builds header and payload inside try/finally.
\*   get_seq_num on self.seq_num = None raises TypeError;
\*   HEADER_STRUCT.pack raises struct.error for a sequence above 65535 (the
\*   counter was already advanced); PAYLOAD_STRUCT.pack raises struct.error
\*   for a field out of range.  None of them is socket.error: finally runs
\*   disconnect and the exception leaves the operation.
BuildRequest(t) ==
    /\ pc[t] = "command"
    /\ op[t].name \in {"switch", "get_relays", "pulse_relay"}
    /\ IF seq_num = None
       THEN /\ pending' = [pending EXCEPT ![t] = Raised("TypeError")]
            /\ pc' = [pc EXCEPT ![t] = "disconnect"]
            /\ UNCHANGED <<seq_num, request, seqBefore>>
       ELSE /\ seq_num' = GetSeqNumNext(seq_num)
            /\ seqBefore' = [seqBefore EXCEPT ![t] = seq_num]
            /\ IF seq_num \in 0..MaxU16 /\ PayloadFits(op[t])
               THEN /\ request' = [request EXCEPT ![t] =
                          HeaderPack(IO, username, password, Descriptor(op[t]), seq_num)
                          \o Payload(op[t])]
                    /\ pc' = [pc EXCEPT ![t] = "send"]
                    /\ UNCHANGED pending
               ELSE /\ pending' = [pending EXCEPT ![t] = Raised("struct.error")]
                    /\ pc' = [pc EXCEPT ![t] = "disconnect"]
                    /\ UNCHANGED request
    /\ UNCHANGED <<socket, socks, nops, op, ret, mysock, connres, sentOn, closedSock, resp>>
    /\ UNCHANGED <<script, aux>>

\* switch_multiple after connect(): for an empty dict the loop body never
\* runs, disconnect is called and True returned.  Otherwise the first
\* iteration calls ChangeRelayCommand(relay, new_state), one argument short
\* of __init__(self, interface, relay, state): TypeError, raised outside the
\* try and with no finally, so the operation ends there.
SwitchMultipleLoop(t) ==
    /\ pc[t] = "command"
    /\ op[t].name = "switch_multiple"
    /\ IF op[t].states = <<>>
       THEN /\ pending' = [pending EXCEPT ![t] = PyBool(TRUE)]
            /\ pc' = [pc EXCEPT ![t] = "disconnect"]
            /\ UNCHANGED ret
       ELSE /\ ret' = [ret EXCEPT ![t] = Raised("TypeError")]
            /\ pc' = [pc EXCEPT ![t] = "done"]
            /\ UNCHANGED pending
    /\ UNCHANGED <<seq_num, socket, socks, nops, op, mysock, connres, request,
                   sentOn, closedSock, seqBefore, resp>>
    /\ UNCHANGED <<script, aux>>

\* self.interface.socket.sendall(request) succeeds
SendOK(t) ==
    /\ pc[t] = "send"
    /\ Connected(socket)
    /\ sentOn' = [sentOn EXCEPT ![t] = socket]
    /\ pc' = [pc EXCEPT ![t] = "recv"]
    /\ UNCHANGED <<seq_num, socket, socks, nops, op, ret, pending, mysock, connres,
                   request, closedSock, seqBefore, resp>>
    /\ script' = [script EXCEPT ![t] = Append(@, Event("send", <<>>))]
    /\ UNCHANGED aux

\* sendall raises socket.error (always so on a socket that is not connected):
\* except socket.error: return False, then finally
SendError(t) ==
    /\ pc[t] = "send"
    /\ pending' = [pending EXCEPT ![t] = PyBool(FALSE)]
    /\ pc' = [pc EXCEPT ![t] = "disconnect"]
    /\ UNCHANGED <<seq_num, socket, socks, nops, op, ret, mysock, connres,
                   request, sentOn, closedSock, seqBefore, resp>>
    /\ script' = [script EXCEPT ![t] = Append(@, Event("send_error", <<>>))]
    /\ UNCHANGED aux

\* _get_boolean_response / GetRelaysRequest._get_response: recv, then
\* increment_seq_num and parse unless nothing was received
GetResponse(t, response) ==
    /\ pc[t] = "recv"
    /\ Len(response) <= ResponseSize(op[t])
    /\ Connected(socket)
    /\ socks[socket].eof => response = <<>>
    /\ resp' = [resp EXCEPT ![t] = response]
    /\ IF Len(response) = 0
       THEN /\ pending' = [pending EXCEPT ![t] = EmptyResponse(op[t])]
            /\ socks' = [socks EXCEPT ![socket].eof = TRUE]
            /\ UNCHANGED seq_num
       ELSE /\ seq_num' = IncrementSeqNum(seq_num)
            /\ pending' = [pending EXCEPT ![t] = ParseResponse(op[t], response)]
            /\ UNCHANGED socks
    /\ pc' = [pc EXCEPT ![t] = "disconnect"]
    /\ UNCHANGED <<socket, nops, op, ret, mysock, connres, request, sentOn, closedSock, seqBefore>>
    /\ script' = [script EXCEPT ![t] = Append(@, Event("recv", response))]
    /\ UNCHANGED aux

\* recv raises socket.error (timeout, reset, closed socket): return False
GetResponseError(t) ==
    /\ pc[t] = "recv"
    /\ pending' = [pending EXCEPT ![t] = PyBool(FALSE)]
    /\ pc' = [pc EXCEPT ![t] = "disconnect"]
    /\ UNCHANGED <<seq_num, socket, socks, nops, op, ret, mysock, connres,
                   request, sentOn, closedSock, seqBefore, resp>>
    /\ script' = [script EXCEPT ![t] = Append(@, Event("recv_error", <<>>))]
    /\ UNCHANGED aux

\* disconnect: self.socket.close(), errors swallowed; then the pending return
\* value or exception reaches the caller
Disconnect(t) ==
    /\ pc[t] = "disconnect"
    /\ socks' = [socks EXCEPT ![socket].st = "closed"]
    /\ closedSock' = [closedSock EXCEPT ![t] = socket]
    /\ ret' = [ret EXCEPT ![t] = pending[t]]
    /\ pc' = [pc EXCEPT ![t] = "done"]
    /\ UNCHANGED <<seq_num, socket, nops, op, pending, mysock, connres, request,
                   sentOn, seqBefore, resp>>
    /\ UNCHANGED <<script, aux>>

\* the caller has the result; the thread may call the next operation
ReturnSession(t) ==
    /\ pc[t] = "done"
    /\ pc' = [pc EXCEPT ![t] = "idle"]
    /\ op' = [op EXCEPT ![t] = NoCall]
    /\ ret' = [ret EXCEPT ![t] = NoValue]
    /\ pending' = [pending EXCEPT ![t] = NoValue]
    /\ mysock' = [mysock EXCEPT ![t] = NoSocket]
    /\ connres' = [connres EXCEPT ![t] = "none"]
    /\ request' = [request EXCEPT ![t] = <<>>]
    /\ sentOn' = [sentOn EXCEPT ![t] = NoSocket]
    /\ closedSock' = [closedSock EXCEPT ![t] = NoSocket]
    /\ seqBefore' = [seqBefore EXCEPT ![t] = None]
    /\ resp' = [resp EXCEPT ![t] = <<>>]
    /\ UNCHANGED <<seq_num, socket, socks, nops>>
    /\ script' = [script EXCEPT ![t] = <<>>]

Return(t) == ReturnSession(t) /\ UNCHANGED aux

\* the bytes the operation wrote as its request
SentBytes(t) == IF sentOn[t] # NoSocket THEN request[t] ELSE <<>>

\* Return, keeping what the first operation of the behaviour did and gave
ReturnRecord(t) ==
    /\ ReturnSession(t)
    /\ prev' = IF prev = NoSummary
               THEN Summary(op[t], script[t], ret[t], SentBytes(t))
               ELSE prev
    /\ UNCHANGED <<cin, cout, cpc, cdec>>

\* ------------------------------------------------------------ specifications
Body(t, calls, limit) ==
    \/ \E c \in calls : Invoke(t, c, limit)
    \/ ConnectOK(t)
    \/ ConnectRefused(t)
    \/ HelloOK(t)
    \/ HelloError(t)
    \/ \E response \in HandshakeResponses : GetInitialSeqNum(t, response)
    \/ GetInitialSeqNumError(t)
    \/ BuildRequest(t)
    \/ SwitchMultipleLoop(t)
    \/ SendOK(t)
    \/ SendError(t)
    \/ \E response \in RecvChoices(num_relays) : GetResponse(t, response)
    \/ GetResponseError(t)
    \/ Disconnect(t)

Step(t, calls) == Body(t, calls, MaxOps) \/ Return(t)

\* one caller: the operations of the handle run one after another
Next == Step(1, Calls)

Spec == Init /\ [][Next]_vars

\* two callers on the same handle
NextConc == \E t \in Threads : Step(t, ConcCalls)

SpecConc == Init /\ [][NextConc]_vars

\* one caller, three operations, the first one's outcome kept for comparison
HistoryCalls ==
    {Call("switch", 2, TRUE, 0, <<>>),
     Call("get_relays", 0, FALSE, 0, <<>>),
     Call("switch_multiple", 0, FALSE, 0, <<>>)}

NextHistory == Body(1, HistoryCalls, MaxHistoryOps) \/ ReturnRecord(1)

SpecHistory == Init /\ [][NextHistory]_vars

\* one caller whose arguments include values that do not fit their wire field
RangeCalls ==
    {Call("switch", 256, TRUE, 0, <<>>),
     Call("pulse_relay", 1, TRUE, 65536, <<>>),
     Call("pulse_relay", 256, FALSE, 500, <<>>),
     Call("switch", 2, TRUE, 0, <<>>),
     Call("pulse_relay", 1, TRUE, 500, <<>>),
     Call("switch_multiple", 0, FALSE, 0, <<>>)}

NextRange == Step(1, RangeCalls)

SpecRange == Init /\ [][NextRange]_vars

\* ------------------------------------------------------------- wire codec
\* credentials of every length around the field width, with distinct bytes
Cred(n) == [i \in 1..n |-> 64 + i]
UserLens == {0, 5, 20, 21, 22, 30}
PassLens == {0, 5, 21, 25}
Descriptors == {CHANGE_RELAY, CHANGE_RELAYS, GET_RELAYS, PULSE_RELAY}
SeqValues == {0, 6, 258, 65535, 65536}
DictKeys == {0, 1, 2, 32, 33}
StateMappings == UNION {[K -> BOOLEAN] : K \in SUBSET DictKeys}

CodecInputs ==
    {CodecInput("header", Cred(u), Cred(p), d, n, 0, FALSE, <<>>) :
        u \in UserLens, p \in PassLens, d \in Descriptors, n \in SeqValues}
    \cup {CodecInput("change_relay", <<>>, <<>>, 0, 0, r, o, <<>>) :
        r \in Relays, o \in BOOLEAN}
    \cup {CodecInput("change_relays", <<>>, <<>>, 0, 0, 0, FALSE, m) :
        m \in StateMappings}

InitCodec ==
    /\ InitSession
    /\ cin \in CodecInputs
    /\ cout = <<>>
    /\ cpc = "ready"
    /\ cdec = Decoded(0, FALSE)

\* DXPCommand._build_header for an IO command; HEADER_STRUCT.pack raises
\* struct.error when the sequence does not fit 'H'
BuildHeader ==
    /\ cpc = "ready"
    /\ cin.kind = "header"
    /\ IF cin.seq \in 0..MaxU16
       THEN /\ cout' = HeaderPack(IO, cin.user, cin.pass, cin.descriptor, cin.seq)
            /\ cpc' = "header"
       ELSE /\ cout' = <<>>
            /\ cpc' = "struct.error"
    /\ UNCHANGED <<session, prev, cin, cdec>>

\* ChangeRelayCommand._build_payload
BuildChangeRelay ==
    /\ cpc = "ready"
    /\ cin.kind = "change_relay"
    /\ cout' = Payload(Call("switch", cin.relay, cin.on, 0, <<>>))
    /\ cpc' = "change_relay"
    /\ UNCHANGED <<session, prev, cin, cdec>>

\* the ChangeRelay payload read back by its own layout
UnpackChangeRelay ==
    /\ cpc = "change_relay"
    /\ cdec' = Decoded(UnpackBB(cout)[1], StateOfCode(UnpackBB(cout)[2]))
    /\ cpc' = "decoded"
    /\ UNCHANGED <<session, prev, cin, cout>>

\* ChangeRelaysCommand._build_payload
BuildChangeRelays ==
    /\ cpc = "ready"
    /\ cin.kind = "change_relays"
    /\ cout' = ChangeRelaysPayload(cin.dict)
    /\ cpc' = "change_relays"
    /\ UNCHANGED <<session, prev, cin, cdec>>

NextCodec ==
    \/ BuildHeader
    \/ BuildChangeRelay
    \/ UnpackChangeRelay
    \/ BuildChangeRelays

SpecCodec == InitCodec /\ [][NextCodec]_vars

\* ------------------------------------------------------------------ claims
Done(t) == pc[t] = "done"
Sent(t) == sentOn[t] # NoSocket
\* the fields of a request as HEADER_STRUCT lays them out
HeaderCommand(req) == req[1]
HeaderDescriptor(req) == req[44]
HeaderReserved(req) == req[45]
HeaderSeq(req) == req[46] + 256 * req[47]
HeaderLen == 47
PayloadOf(req) == SubSeq(req, HeaderLen + 1, Len(req))

\* C1: when the transport refuses the connection, every public operation
\* returns False and raises nothing, whatever the handle's history.
C1_RefusedReturnsFalse ==
    \A t \in Threads :
        (Done(t) /\ connres[t] = "refused") => ret[t] = PyBool(FALSE)

\* C2: when a public operation ends (return or exception), the socket that
\* its connect() opened is closed.
C2_SocketClosedAtEnd ==
    \A t \in Threads : Done(t) => socks[mysock[t]].st = "closed"

\* C3: switch_multiple returns a boolean; after a successful handshake a
\* non-empty mapping makes it build a ChangeRelay request for the first entry;
\* and for a non-empty mapping it returns True only after a request was
\* written and acknowledged with the success byte.
C3_SwitchMultipleRoundTrips ==
    \A t \in Threads :
        (Done(t) /\ op[t].name = "switch_multiple") =>
            /\ ret[t].tag = "bool"
            /\ (connres[t] = "ok" /\ op[t].states # <<>>) =>
                  /\ request[t] # <<>>
                  /\ HeaderDescriptor(request[t]) = CHANGE_RELAY
            /\ (ret[t] = PyBool(TRUE) /\ op[t].states # <<>>) =>
                  (Sent(t) /\ resp[t] = <<0>>)

C5_SwitchRequestAndAck ==
    \A t \in Threads :
        (op[t].name = "switch" /\ connres[t] = "ok") =>
            /\ pc[t] \in {"send", "recv", "disconnect", "done"} =>
                  /\ Len(request[t]) = HeaderLen + 2
                  /\ HeaderCommand(request[t]) = 3
                  /\ HeaderDescriptor(request[t]) = 1
                  /\ PayloadOf(request[t]) =
                        <<op[t].relay, IF op[t].on THEN 1 ELSE 0>>
            /\ (Done(t) /\ Sent(t)) =>
                  ret[t] = PyBool(resp[t] = <<0>>)

\* C6: after a successful connect and handshake, a request get_relays writes
\* is a header alone with descriptor 4; when the device returns num_relays
\* bytes the result is the list whose element i is (byte i = 1); and a list
\* is returned in no other case.
C6_GetRelaysResult ==
    \A t \in Threads :
        (op[t].name = "get_relays" /\ connres[t] = "ok") =>
            /\ Sent(t) =>
                  /\ Len(request[t]) = HeaderLen
                  /\ HeaderDescriptor(request[t]) = 4
            /\ (Done(t) /\ Len(resp[t]) = num_relays) =>
                  /\ ret[t].tag = "list"
                  /\ Len(ret[t].l) = num_relays
                  /\ \A i \in 1..num_relays : ret[t].l[i] = (resp[t][i] = 1)
            /\ (Done(t) /\ ret[t].tag = "list") => Len(resp[t]) = num_relays

\* C7: with two callers on one handle, every request is written to the socket
\* its own operation opened and carries the sequence number negotiated on
\* that socket, and every operation closes only the socket it opened.
C7_NoInterference ==
    \A t \in Threads :
        /\ Sent(t) =>
              /\ sentOn[t] = mysock[t]
              /\ socks[mysock[t]].hs # None
              /\ HeaderSeq(request[t]) = socks[mysock[t]].hs + 1
        /\ closedSock[t] # NoSocket => closedSock[t] = mysock[t]

\* C8: when the peer accepts the connection but the 2-byte initial sequence
\* number does not arrive in full (nothing, one byte, or a timeout), every
\* public operation returns False and raises nothing.
C8_HandshakeFailureReturnsFalse ==
    \A t \in Threads :
        (Done(t) /\ connres[t] \in {"hs_empty", "hs_short", "hs_error"}) =>
            ret[t] = PyBool(FALSE)

\* C9: every command header that is written carries a sequence number
\* computed from the handshake response of the connection it is written to.
C9_SeqFromOwnHandshake ==
    \A t \in Threads :
        Sent(t) =>
            /\ socks[sentOn[t]].hs # None
            /\ HeaderSeq(request[t]) = socks[sentOn[t]].hs + 1

\* C10: a request is written only to a socket that is connected, on which the
\* greeting was sent and the initial sequence number received; and when
\* connect or the handshake failed no command header is built or written.
C10_SessionOrder ==
    \A t \in Threads :
        /\ Sent(t) =>
              /\ socks[sentOn[t]].hello
              /\ socks[sentOn[t]].hs # None
        /\ connres[t] \in {"refused", "hello_error", "hs_empty", "hs_short", "hs_error"} =>
              (request[t] = <<>> /\ ~Sent(t))

\* C11: a command puts the value the counter had before the command on the
\* wire and advances the counter by one when the header is built; the counter
\* advances by one more exactly when the read returned a response.  So after
\* a response the counter is wire value + 2, and after a read that returned
\* nothing it is wire value + 1, for boolean-ack commands and for GetRelays.
C11_WireValueAndAdvance ==
    \A t \in Threads :
        /\ request[t] # <<>> => HeaderSeq(request[t]) = seqBefore[t]
        /\ (seqBefore[t] # None /\ pc[t] \in {"send", "recv"}) =>
              seq_num = seqBefore[t] + 1
        /\ (Sent(t) /\ pc[t] \in {"disconnect", "done"}) =>
              seq_num = HeaderSeq(request[t]) + (IF resp[t] # <<>> THEN 2 ELSE 1)

\* C11 witness: GetRelays went out with sequence 6, a response was received
\* and the counter is 8.
C11_Witness ==
    \E t \in Threads :
        /\ op[t].name = "get_relays" /\ Sent(t)
        /\ HeaderSeq(request[t]) = 6
        /\ resp[t] # <<>> /\ seq_num = 8

\* C13: the sequence counter is a 16-bit unsigned integer: whenever it is
\* set it lies in 0..65535, so the header's sequence field can always be
\* encoded.
C13_CounterIs16Bit ==
    /\ seq_num # None => seq_num \in 0..MaxU16
    /\ \A t \in Threads : pending[t] # Raised("struct.error")

\* C14: every list get_relays returns has exactly num_relays elements; a
\* response of at least one but fewer than num_relays bytes is reported as a
\* failure (False or None).
C14_ShortResponseIsFailure ==
    \A t \in Threads :
        (Done(t) /\ op[t].name = "get_relays") =>
            /\ ret[t].tag = "list" => Len(ret[t].l) = num_relays
            /\ Len(resp[t]) \in 1..(num_relays - 1) =>
                  ret[t] \in {PyBool(FALSE), PyNone}

\* two runs of the transport agree as far as both go
IsPrefix(a, b) == Len(a) <= Len(b) /\ SubSeq(b, 1, Len(a)) = a
SameTransport(a, b) == IsPrefix(a, b) \/ IsPrefix(b, a)

\* C12: the outcome of an operation depends only on the configuration, the
\* call and what the transport does, not on the handle's history: an
\* operation that makes the same call as the first operation of the handle
\* and meets the same transport behaviour gives the same result and writes
\* the same bytes.
C12_HistoryIndependent ==
    \A t \in Threads :
        (Done(t) /\ prev # NoSummary /\ prev.op = op[t]
                 /\ SameTransport(prev.script, script[t])) =>
            /\ ret[t] = prev.ret
            /\ SentBytes(t) = prev.sent

\* C17: after a successful handshake, switch or pulse_relay with a relay
\* index outside 0..255, and pulse_relay with a pulse width outside 0..65535,
\* return False and raise nothing.
C17_UnencodableReturnsFalse ==
    \A t \in Threads :
        (/\ Done(t) /\ connres[t] = "ok"
         /\ op[t].name \in {"switch", "pulse_relay"}
         /\ (op[t].relay \notin 0..MaxU8 \/ op[t].length \notin 0..MaxU16)) =>
            ret[t] = PyBool(FALSE)

\* C15: every header is 47 bytes: command (1), username (21), password (21),
\* descriptor (1), reserved (1) = 0, sequence (2, low byte first); each
\* credential field holds the credential cut to 21 bytes or padded with zero
\* bytes, for every descriptor of the catalog.
C15_HeaderLayout ==
    cpc = "header" =>
        /\ Len(cout) = 47
        /\ cout[1] = 3
        /\ \A i \in 1..21 :
              cout[1 + i] = IF i <= Len(cin.user) THEN cin.user[i] ELSE 0
        /\ \A i \in 1..21 :
              cout[22 + i] = IF i <= Len(cin.pass) THEN cin.pass[i] ELSE 0
        /\ cout[44] = cin.descriptor
        /\ cout[45] = 0
        /\ cout[46] \in 0..255 /\ cout[47] \in 0..255
        /\ cout[46] + 256 * cout[47] = cin.seq

\* C15 witness: a header built from a username longer than the field and a
\* password shorter than it, for the ChangeRelays descriptor.
C15_Witness ==
    /\ cpc = "header"
    /\ Len(cin.user) > 21 /\ Len(cin.pass) \in 1..20
    /\ cin.descriptor = 2 /\ cin.seq = 258

\* C16: the ChangeRelays payload is 32 bytes for any mapping; byte i
\* (0-based) is 1 or 0 for the state of relay i+1 when relay i+1 is a key of
\* the mapping, and 2 otherwise.
C16_ChangeRelaysPayload ==
    cpc = "change_relays" =>
        /\ Len(cout) = 32
        /\ \A i \in 0..31 :
              cout[i + 1] =
                  IF (i + 1) \in DOMAIN cin.dict
                  THEN (IF cin.dict[i + 1] THEN 1 ELSE 0)
                  ELSE 2

\* C16 witness: a payload built from a mapping with keys inside and outside
\* 1..32.
C16_Witness ==
    /\ cpc = "change_relays"
    /\ DOMAIN cin.dict = {0, 2, 32, 33}
    /\ cin.dict[2] /\ ~cin.dict[32]

\* C18: the ChangeRelay payload of (relay, state) is the 2 bytes (relay, 1
\* for on / 0 for off); reading them back by the same layout gives (relay,
\* state); and every other (relay, state) pair encodes to other bytes.
C18_ChangeRelayRoundTrip ==
    /\ cpc \in {"change_relay", "decoded"} =>
          /\ cout = <<cin.relay, IF cin.on THEN 1 ELSE 0>>
          /\ \A r \in Relays, o \in BOOLEAN :
                (r # cin.relay \/ o # cin.on) =>
                    Payload(Call("switch", r, o, 0, <<>>)) # cout
    /\ cpc = "decoded" => cdec = Decoded(cin.relay, cin.on)

\* C18 witness: (relay 3, off) encoded and read back.
C18_Witness ==
    cpc = "decoded" /\ cin.relay = 3 /\ ~cin.on /\ cdec = Decoded(3, FALSE)

====
